---- MODULE Spec2Model ----
(***************************************************************************)
(* Model of src/app.py: the workspace finder.  A Streamlit session holds   *)
(* the loaded datasets and the NLP-enabled flag; the "Find Workspace"      *)
(* handler parses a query through the NLP service, normalises the          *)
(* criteria, narrows the desks through the type / floor / proximity        *)
(* filters and evaluates the availability of every candidate.              *)
(*                                                                         *)
(* Python's None is the empty tuple and a present value v is <<v>>, so an  *)
(* optional value always compares.  Text that the code inspects character  *)
(* by character (the floor, a policy description) is a tuple of one-       *)
(* character strings; text that is only compared is a string.              *)
(***************************************************************************)
EXTENDS Integers, Sequences, FiniteSets, TLC

VARIABLES
    nlp_enabled,        \* st.session_state.nlp_enabled / NLP_ENABLED
    spaces_data,        \* st.session_state.spaces_data
    occupancy_data,     \* st.session_state.occupancy_data
    desks_data,         \* st.session_state.desks_data
    policies_data,      \* st.session_state.policies_data
    nlp_outcome,        \* what the NLP call of the last query did
    structured_query,   \* the parsed criteria of the last query
    req_time,           \* requested time window of the last query
    req_floor,          \* normalised floor of the last query
    floor_warning,      \* st.warning("Could not parse floor ...") was shown
    filter_log,         \* the filter trace
    candidate_desks,    \* desks left after the filters
    available_desks,    \* candidates found available
    availability_log,   \* one entry per evaluated candidate
    recommendation,     \* the top recommendation
    marketing_area_ids, \* result of find_marketing_zone_areas
    outcome             \* where the last run of the script ended

vars == <<nlp_enabled, spaces_data, occupancy_data, desks_data, policies_data,
          nlp_outcome, structured_query, req_time, req_floor, floor_warning,
          filter_log, candidate_desks, available_desks, availability_log,
          recommendation, marketing_area_ids, outcome>>

session == <<nlp_enabled, spaces_data, occupancy_data, desks_data, policies_data>>

----------------------------------------------------------------------------
(* Bounds of the model *)

MaxDesks == 2
MaxSpaces == 3
MaxFloorLen == 2

----------------------------------------------------------------------------
(* Optional values and sequences *)

None == <<>>
Some(v) == <<v>>
IsNone(o) == o = <<>>
Val(o) == o[1]

SeqsUpTo(S, n) == UNION {[1..k -> S] : k \in 0..n}

Range(s) == {s[i] : i \in 1..Len(s)}

\* s is t with some elements left out, the rest in their order
RECURSIVE IsSubSeq(_, _)
IsSubSeq(s, t) ==
    IF s = <<>> THEN TRUE
    ELSE IF t = <<>> THEN FALSE
    ELSE IF Head(s) = Head(t) THEN IsSubSeq(Tail(s), Tail(t))
    ELSE IsSubSeq(s, Tail(t))

\* Python's  pat in text  for two texts
Contains(text, pat) ==
    \E i \in 0..(Len(text) - Len(pat)) :
        \A j \in 1..Len(pat) : text[i + j] = pat[j]

----------------------------------------------------------------------------
(* The datasets *)

DeskPool == {
    [id |-> "D1", type |-> "standing", floor |-> 3, area_id |-> "A1",
     status |-> "available", vergesense_area_id |-> "V1"],
    [id |-> "D2", type |-> "standing", floor |-> 3, area_id |-> "A1",
     status |-> "maintenance", vergesense_area_id |-> "V1"],
    [id |-> "D3", type |-> "regular", floor |-> 3, area_id |-> "A2",
     status |-> "occupied", vergesense_area_id |-> "V1"],
    [id |-> "D4", type |-> "standing", floor |-> 2, area_id |-> "A2",
     status |-> "available", vergesense_area_id |-> "V2"],
    [id |-> "D5", type |-> "regular", floor |-> 0, area_id |-> "A1",
     status |-> "occupied", vergesense_area_id |-> "V2"],
    [id |-> "D6", type |-> "regular", floor |-> 2, area_id |-> "A3",
     status |-> "maintenance", vergesense_area_id |-> "V2"] }

DeskSeqs == SeqsUpTo(DeskPool, MaxDesks)

SpacePool == {
    [id |-> "Z1", name |-> "Marketing Zone", type |-> "zone", parent_id |-> None],
    [id |-> "Z2", name |-> "Marketing Zone", type |-> "zone", parent_id |-> None],
    [id |-> "Z3", name |-> "Sales Zone", type |-> "zone", parent_id |-> None],
    [id |-> "A1", name |-> "Area 1", type |-> "area", parent_id |-> Some("Z1")],
    [id |-> "A2", name |-> "Area 2", type |-> "area", parent_id |-> Some("Z2")],
    [id |-> "A3", name |-> "Area 3", type |-> "area", parent_id |-> Some("Z1")],
    [id |-> "A4", name |-> "Marketing Zone", type |-> "area", parent_id |-> None],
    [id |-> "R1", name |-> "Room 1", type |-> "room", parent_id |-> Some("Z1")] }

SpaceSeqs == SeqsUpTo(SpacePool, MaxSpaces)

DefaultThreshold == 80

ForecastValues == {0, DefaultThreshold - 1, DefaultThreshold, DefaultThreshold + 1, 100}

\* the next_day record of one area: any of its slots may be missing
NextDayChoices ==
    {[s \in {} |-> 0], [s \in {"morning"} |-> 10]}
        \cup {[s \in {"afternoon"} |-> v] : v \in ForecastValues}

\* the forecast of area V1 varies, area V2 never has an entry
OccupancySet ==
    {[forecast |-> [a \in {} |-> 0]]}
        \cup {[forecast |-> [a \in {"V1"} |-> [next_day |-> nd]]] : nd \in NextDayChoices}

PolicySets == {
    [policies |-> <<>>],
    [policies |-> <<[id |-> "POL-002", description |-> Some(<<"2", "4", "h">>)]>>],
    [policies |-> <<[id |-> "POL-005", description |-> Some(<<"<", "8", "0", "%">>)]>>],
    [policies |-> <<[id |-> "POL-005", description |-> Some(<<"9", "0", "%">>)]>>],
    [policies |-> <<[id |-> "POL-002", description |-> Some(<<"8", "0", "%">>)],
                    [id |-> "POL-005", description |-> None]>>] }

TimeRequests == {"now", "tomorrow afternoon", "next Monday morning"}

----------------------------------------------------------------------------
(* find_marketing_zone_areas *)

IsMarketingZone(space) == space.name = "Marketing Zone" /\ space.type = "zone"

\* the first loop without its break: the last matching zone wins
marketing_zone_id_Last(spaces) ==
    LET hits == {i \in 1..Len(spaces) : IsMarketingZone(spaces[i])}
    IN  IF hits = {} THEN None
        ELSE Some(spaces[CHOOSE i \in hits : \A j \in hits : i >= j].id)

\* the first loop: the id of the first matching zone, or None
marketing_zone_id(spaces) ==
    LET hits == {i \in 1..Len(spaces) : IsMarketingZone(spaces[i])}
    IN  IF hits = {} THEN None
        ELSE Some(spaces[CHOOSE i \in hits : \A j \in hits : i <= j].id)

IsChildArea(space, zone_id) == space.parent_id = Some(zone_id) /\ space.type = "area"

RECURSIVE ChildAreaIds(_, _)
ChildAreaIds(spaces, zone_id) ==
    IF spaces = <<>> THEN <<>>
    ELSE (IF IsChildArea(Head(spaces), zone_id) THEN <<Head(spaces).id>> ELSE <<>>)
             \o ChildAreaIds(Tail(spaces), zone_id)

find_marketing_zone_areas(data) ==
    LET zid == marketing_zone_id(data.spaces)
    IN  IF IsNone(zid) \/ Val(zid) = "" THEN <<>>
        ELSE ChildAreaIds(data.spaces, Val(zid))

----------------------------------------------------------------------------
(* check_desk_availability *)

\* occupancy_data.get("forecast", {}).get(area_id, {}).get("next_day", {}).get("afternoon")
AfternoonForecast(occupancy, area_id) ==
    IF area_id \notin DOMAIN occupancy.forecast THEN None
    ELSE LET next_day == occupancy.forecast[area_id].next_day
         IN  IF "afternoon" \in DOMAIN next_day THEN Some(next_day["afternoon"]) ELSE None

\* next((p for p in policies if p.id == "POL-005"), None)
CapacityPolicy(policies) ==
    LET hits == {i \in 1..Len(policies.policies) : policies.policies[i].id = "POL-005"}
    IN  IF hits = {} THEN None
        ELSE Some(policies.policies[CHOOSE i \in hits : \A j \in hits : i <= j])

PolicyDescription(p) == IF IsNone(p.description) THEN <<>> ELSE Val(p.description)

Threshold(policies) ==
    LET capacity_policy == CapacityPolicy(policies)
    IN  IF ~IsNone(capacity_policy)
            /\ Contains(PolicyDescription(Val(capacity_policy)), <<"8", "0", "%">>)
        THEN 80
        ELSE DefaultThreshold

\* forecast >= threshold
ForecastBlocks_Strict(forecast, threshold) == forecast > threshold

ForecastBlocks(forecast, threshold) == forecast >= threshold

\* desk.get("status") == "maintenance"
UnderMaintenance_Never(desk) == FALSE

UnderMaintenance(desk) == desk.status = "maintenance"

\* desk.get("status") == "available"
CurrentlyAvailable_NotOccupied(desk) == desk.status # "maintenance"

CurrentlyAvailable(desk) == desk.status = "available"

check_desk_availability(desk, time_request, occupancy, policies) ==
    IF UnderMaintenance(desk)
    THEN [is_available |-> FALSE, reason |-> [kind |-> "maintenance"]]
    ELSE IF time_request = "tomorrow afternoon"
    THEN LET area_id == desk.vergesense_area_id
             forecast == AfternoonForecast(occupancy, area_id)
             threshold == Threshold(policies)
         IN  IF IsNone(forecast)
             THEN [is_available |-> FALSE,
                   reason |-> [kind |-> "no_forecast", area |-> area_id]]
             ELSE IF ForecastBlocks(Val(forecast), threshold)
             THEN [is_available |-> FALSE,
                   reason |-> [kind |-> "meets_threshold", area |-> area_id,
                               forecast |-> Val(forecast), threshold |-> threshold]]
             ELSE [is_available |-> TRUE,
                   reason |-> [kind |-> "below_threshold", area |-> area_id,
                               forecast |-> Val(forecast), threshold |-> threshold]]
    ELSE IF time_request = "now"
    THEN IF CurrentlyAvailable(desk)
         THEN [is_available |-> TRUE, reason |-> [kind |-> "currently_available"]]
         ELSE [is_available |-> FALSE,
               reason |-> [kind |-> "status", status |-> desk.status]]
    ELSE [is_available |-> FALSE,
          reason |-> [kind |-> "not_implemented", time_request |-> time_request]]

\* the loop over the candidates: one log entry per desk
AvailabilityLog(candidates, time_request, occupancy, policies) ==
    [i \in 1..Len(candidates) |->
        LET r == check_desk_availability(candidates[i], time_request, occupancy, policies)
        IN  [desk |-> candidates[i].id, is_available |-> r.is_available,
             reason |-> r.reason]]

DeskIsAvailable(desk, time_request, occupancy, policies) ==
    check_desk_availability(desk, time_request, occupancy, policies).is_available

RECURSIVE AvailableDesks(_, _, _, _)
AvailableDesks(candidates, time_request, occupancy, policies) ==
    IF candidates = <<>> THEN <<>>
    ELSE (IF DeskIsAvailable(Head(candidates), time_request, occupancy, policies)
          THEN <<Head(candidates)>> ELSE <<>>)
             \o AvailableDesks(Tail(candidates), time_request, occupancy, policies)

\* step 4: the first available desk, with its availability note
TopRecommendation(available, time_request, occupancy, policies) ==
    IF available = <<>> THEN None
    ELSE Some([desk |-> available[1],
               note |-> check_desk_availability(available[1], time_request,
                                                occupancy, policies).reason])

----------------------------------------------------------------------------
(* The structured criteria returned by the NLP service *)

FloorAlphabet == {"3", "d"}

FloorTexts ==
    SeqsUpTo(FloorAlphabet, MaxFloorLen)
        \cup {<<"0">>, <<"0", "3">>, <<"3", "r", "d">>, <<"a", "b", "c">>,
              <<"2", "n", "d", " ", "f", "l", "o", "o", "r">>}

FloorNumbers == {0, 3, -2}

\* the floor is free-form: a JSON string or a JSON number
FloorValues ==
    {[isnum |-> FALSE, text |-> t] : t \in FloorTexts}
        \cup {[isnum |-> TRUE, num |-> n] : n \in FloorNumbers}

Optional(S) == {None} \cup {Some(v) : v \in S}

CriteriaSet ==
    [desk_type : Optional({"", "standing"}),
     location_proximity : Optional({"Marketing Team", "window"}),
     floor : Optional(FloorValues),
     time_request : Optional(TimeRequests),
     specific_features : Optional({<<"dual-monitor">>})]

\* a dict with no key is falsy
IsEmptyDict(q) ==
    /\ IsNone(q.desk_type)
    /\ IsNone(q.location_proximity)
    /\ IsNone(q.floor)
    /\ IsNone(q.time_request)
    /\ IsNone(q.specific_features)

\* truthiness of an optional string
TruthyText(o) == ~IsNone(o) /\ Val(o) # ""

----------------------------------------------------------------------------
(* get_structured_query_from_nlp *)

NlpOutcomes == {"ok", "timeout", "connection_error", "request_error",
                "body_not_json", "missing_response", "invalid_json",
                "unexpected_error"}

\* the except clauses that set st.session_state.nlp_enabled = False and call
\* st.rerun(); response.json() raises a RequestException or a plain
\* JSONDecodeError depending on the version of requests
DisablesNlp_Timeout(nlp, body_is_request_error) ==
    \/ nlp \in {"timeout", "connection_error", "request_error"}
    \/ nlp = "body_not_json" /\ body_is_request_error

DisablesNlp(nlp, body_is_request_error) ==
    \/ nlp \in {"connection_error", "request_error"}
    \/ nlp = "body_not_json" /\ body_is_request_error

get_structured_query_from_nlp(enabled, nlp, parsed, body_is_request_error) ==
    IF ~enabled THEN [result |-> None, disable |-> FALSE]
    ELSE IF nlp = "ok" THEN [result |-> Some(parsed), disable |-> FALSE]
    ELSE [result |-> None, disable |-> DisablesNlp(nlp, body_is_request_error)]

----------------------------------------------------------------------------
(* Criteria normalisation *)

DigitChars == <<"0", "1", "2", "3", "4", "5", "6", "7", "8", "9">>

IsDigit(c) == \E i \in 1..Len(DigitChars) : DigitChars[i] = c

DigitValue(c) == (CHOOSE i \in 1..Len(DigitChars) : DigitChars[i] = c) - 1

\* str(n) for n >= 0
RECURSIVE Decimal(_)
Decimal(n) ==
    IF n < 10 THEN <<DigitChars[n + 1]>>
    ELSE Decimal(n \div 10) \o <<DigitChars[(n % 10) + 1]>>

\* str(req_floor_str)
Str(v) ==
    IF v.isnum THEN (IF v.num < 0 THEN <<"-">> \o Decimal(-v.num) ELSE Decimal(v.num))
    ELSE v.text

\* ''.join(filter(str.isdigit, text))
DigitsOf(text) == SelectSeq(text, IsDigit)

\* int(digits) for a non-empty run of digits
RECURSIVE ParseInt(_)
ParseInt(digits) ==
    IF digits = <<>> THEN 0
    ELSE 10 * ParseInt(SubSeq(digits, 1, Len(digits) - 1)) + DigitValue(digits[Len(digits)])

\* if req_floor_str:
FloorGiven(floor) ==
    /\ ~IsNone(floor)
    /\ IF Val(floor).isnum THEN Val(floor).num # 0 ELSE Val(floor).text # <<>>

\* int('') raises ValueError
FloorUnparsable(floor) == FloorGiven(floor) /\ DigitsOf(Str(Val(floor))) = <<>>

NormalizeFloor(floor) ==
    IF FloorGiven(floor) /\ ~FloorUnparsable(floor)
    THEN Some(ParseInt(DigitsOf(Str(Val(floor)))))
    ELSE None

\* structured_query.get("time_request", "now")
RequestedTime(q) == IF IsNone(q.time_request) THEN "now" ELSE Val(q.time_request)

----------------------------------------------------------------------------
(* The filter pipeline *)

\* str.lower on the proximity targets of the model
Lower(text) ==
    CASE text = "Marketing Team" -> "marketing team"
      [] text = "MARKETING TEAM" -> "marketing team"
      [] OTHER -> text

HasType(d, t) == d.type = t
OnFloor(d, f) == d.floor = f
InAreas(d, ids) == d.area_id \in Range(ids)

FilterByType(candidates, t) == SelectSeq(candidates, LAMBDA d : HasType(d, t))
FilterByFloor(candidates, f) == SelectSeq(candidates, LAMBDA d : OnFloor(d, f))
FilterByAreas(candidates, ids) == SelectSeq(candidates, LAMBDA d : InAreas(d, ids))

\* each step maps the candidates and the log so far to the next ones
StartStep(desks) ==
    [candidates |-> desks, log |-> <<[kind |-> "start", count |-> Len(desks)]>>]

\* a type step that logs only when it removed a desk
TypeStep_LogOnChange(f, req_desk_type) ==
    IF TruthyText(req_desk_type)
    THEN LET kept == FilterByType(f.candidates, Val(req_desk_type))
         IN  [candidates |-> kept,
              log |-> IF Len(kept) = Len(f.candidates) THEN f.log
                      ELSE Append(f.log, [kind |-> "type", value |-> Val(req_desk_type),
                                          count |-> Len(kept)])]
    ELSE f

TypeStep(f, req_desk_type) ==
    IF TruthyText(req_desk_type)
    THEN LET kept == FilterByType(f.candidates, Val(req_desk_type))
         IN  [candidates |-> kept,
              log |-> Append(f.log, [kind |-> "type", value |-> Val(req_desk_type),
                                     count |-> Len(kept)])]
    ELSE f

FloorStep(f, floor) ==
    IF ~IsNone(floor)
    THEN LET kept == FilterByFloor(f.candidates, Val(floor))
         IN  [candidates |-> kept,
              log |-> Append(f.log, [kind |-> "floor", value |-> Val(floor),
                                     count |-> Len(kept)])]
    ELSE f

\* a proximity step that filters even when no area was resolved
ProximityStep_NoSkip(f, req_proximity, spaces) ==
    IF TruthyText(req_proximity) /\ Lower(Val(req_proximity)) = "marketing team"
    THEN LET ids == IF IsNone(spaces) THEN <<>> ELSE find_marketing_zone_areas(Val(spaces))
             kept == FilterByAreas(f.candidates, ids)
         IN  [candidates |-> kept,
              log |-> Append(f.log, IF ids = <<>> THEN [kind |-> "proximity_warning"]
                                    ELSE [kind |-> "proximity", areas |-> ids,
                                          count |-> Len(kept)])]
    ELSE IF TruthyText(req_proximity)
    THEN [candidates |-> f.candidates,
          log |-> Append(f.log, [kind |-> "not_implemented",
                                 target |-> Val(req_proximity)])]
    ELSE f

ProximityStep(f, req_proximity, spaces) ==
    IF TruthyText(req_proximity) /\ Lower(Val(req_proximity)) = "marketing team"
    THEN IF ~IsNone(spaces)
         THEN LET ids == find_marketing_zone_areas(Val(spaces))
              IN  IF ids = <<>>
                  THEN [candidates |-> f.candidates,
                        log |-> Append(f.log, [kind |-> "proximity_warning"])]
                  ELSE LET kept == FilterByAreas(f.candidates, ids)
                       IN  [candidates |-> kept,
                            log |-> Append(f.log, [kind |-> "proximity", areas |-> ids,
                                                   count |-> Len(kept)])]
         ELSE [candidates |-> f.candidates,
               log |-> Append(f.log, [kind |-> "spaces_not_loaded"])]
    ELSE IF TruthyText(req_proximity)
    THEN [candidates |-> f.candidates,
          log |-> Append(f.log, [kind |-> "not_implemented",
                                 target |-> Val(req_proximity)])]
    ELSE f

\* a pipeline whose floor filter starts again from all the desks
FilterDesks_Restart(desks, q, spaces) ==
    LET typed == TypeStep(StartStep(desks), q.desk_type)
    IN  ProximityStep(
            FloorStep([candidates |-> desks, log |-> typed.log], NormalizeFloor(q.floor)),
            q.location_proximity, spaces)

\* lines 279-309 as one function of the criteria
FilterDesks(desks, q, spaces) ==
    ProximityStep(
        FloorStep(TypeStep(StartStep(desks), q.desk_type), NormalizeFloor(q.floor)),
        q.location_proximity, spaces)

----------------------------------------------------------------------------
(* The session: one run of the script per user interaction *)

\* not all([spaces_data, occupancy_data, desks_data, policies_data])
AllDataLoaded ==
    ~IsNone(spaces_data) /\ ~IsNone(occupancy_data)
        /\ ~IsNone(desks_data) /\ ~IsNone(policies_data)

\* a run of the script that ends before the filters shows no result
NoResults ==
    /\ req_time' = None
    /\ req_floor' = None
    /\ floor_warning' = FALSE
    /\ filter_log' = <<>>
    /\ candidate_desks' = <<>>
    /\ available_desks' = <<>>
    /\ availability_log' = <<>>
    /\ recommendation' = None
    /\ marketing_area_ids' = <<>>

\* the ids the proximity step resolved, when it ran
ResolvedAreas(q, spaces) ==
    IF TruthyText(q.location_proximity)
        /\ Lower(Val(q.location_proximity)) = "marketing team" /\ ~IsNone(spaces)
    THEN find_marketing_zone_areas(Val(spaces))
    ELSE <<>>

\* steps 1 and 2 of the handler once the criteria are parsed: extract the
\* criteria, normalise the floor, run the filters
ExtractAndFilter(q) ==
    LET f == FilterDesks(Val(desks_data).desks, q, spaces_data)
    IN  /\ req_time' = Some(RequestedTime(q))
        /\ req_floor' = NormalizeFloor(q.floor)
        /\ floor_warning' = FloorUnparsable(q.floor)
        /\ filter_log' = f.log
        /\ candidate_desks' = f.candidates
        /\ marketing_area_ids' = ResolvedAreas(q, spaces_data)

\* steps 3 and 4 of the handler
EvaluateCandidates(time_request) ==
    IF candidate_desks' = <<>>
    THEN /\ available_desks' = <<>>
         /\ availability_log' = <<>>
         /\ recommendation' = None
         /\ outcome' = "no_candidates"
    ELSE IF IsNone(occupancy_data) \/ IsNone(policies_data)
    THEN /\ available_desks' = <<>>
         /\ availability_log' = <<>>
         /\ recommendation' = None
         /\ outcome' = "cannot_check_availability"
    ELSE LET occ == Val(occupancy_data)
             pol == Val(policies_data)
             avail == AvailableDesks(candidate_desks', time_request, occ, pol)
         IN  /\ available_desks' = avail
             /\ availability_log' = AvailabilityLog(candidate_desks', time_request, occ, pol)
             /\ recommendation' = TopRecommendation(avail, time_request, occ, pol)
             /\ outcome' = IF avail = <<>> THEN "no_available" ELSE "recommended"

\* if not structured_query
ParseFailed(result) == IsNone(result) \/ IsEmptyDict(Val(result))

\* the body of  if st.button("Find Workspace")
Handler(has_text, nlp, parsed, body_is_request_error) ==
    IF ~has_text
    THEN /\ outcome' = "empty_query"
         /\ nlp_outcome' = "not_called"
         /\ structured_query' = None
         /\ NoResults
         /\ UNCHANGED session
    ELSE IF ~AllDataLoaded
    THEN /\ outcome' = "data_missing"
         /\ nlp_outcome' = "not_called"
         /\ structured_query' = None
         /\ NoResults
         /\ UNCHANGED session
    ELSE IF ~nlp_enabled
    THEN /\ outcome' = "nlp_disabled"
         /\ nlp_outcome' = "not_called"
         /\ structured_query' = None
         /\ NoResults
         /\ UNCHANGED session
    ELSE LET r == get_structured_query_from_nlp(nlp_enabled, nlp, parsed,
                                                body_is_request_error)
         IN  /\ nlp_outcome' = nlp
             /\ structured_query' = r.result
             /\ IF r.disable
                THEN /\ nlp_enabled' = FALSE
                     /\ outcome' = "rerun"
                     /\ NoResults
                     /\ UNCHANGED <<spaces_data, occupancy_data, desks_data, policies_data>>
                ELSE IF ParseFailed(r.result)
                THEN /\ outcome' = "parse_failed"
                     /\ NoResults
                     /\ UNCHANGED session
                ELSE /\ ExtractAndFilter(Val(r.result))
                     /\ EvaluateCandidates(RequestedTime(Val(r.result)))
                     /\ UNCHANGED session

SessionDeskPool == {d \in DeskPool : d.id \in {"D1", "D2", "D4", "D5"}}

SessionSpaces == {
    [spaces |-> <<[id |-> "Z1", name |-> "Marketing Zone", type |-> "zone",
                   parent_id |-> None],
                  [id |-> "A1", name |-> "Area 1", type |-> "area",
                   parent_id |-> Some("Z1")]>>],
    [spaces |-> <<[id |-> "Z3", name |-> "Sales Zone", type |-> "zone",
                   parent_id |-> None]>>] }

SessionOccupancy ==
    [forecast |-> [a \in {"V1"} |-> [next_day |-> [s \in {"afternoon"} |-> 65]]]]

SessionPolicies ==
    [policies |-> <<[id |-> "POL-005", description |-> Some(<<"<", "8", "0", "%">>)]>>]

SessionCriteria ==
    [desk_type : Optional({"standing"}),
     location_proximity : Optional({"Marketing Team"}),
     floor : Optional({[isnum |-> FALSE, text |-> <<"3", "r", "d">>],
                       [isnum |-> FALSE, text |-> <<"a", "b", "c">>]}),
     time_request : Optional({"tomorrow afternoon", "next Monday morning"}),
     specific_features : Optional({<<"dual-monitor">>})]

\* the first run of the script: the connection check and the data load
Init ==
    /\ nlp_enabled \in BOOLEAN
    /\ spaces_data \in Optional(SessionSpaces)
    /\ occupancy_data \in Optional({SessionOccupancy})
    /\ desks_data \in Optional({[desks |-> s] : s \in SeqsUpTo(SessionDeskPool, MaxDesks)})
    /\ policies_data \in Optional({SessionPolicies})
    /\ nlp_outcome = "not_called"
    /\ structured_query = None
    /\ req_time = None
    /\ req_floor = None
    /\ floor_warning = FALSE
    /\ filter_log = <<>>
    /\ candidate_desks = <<>>
    /\ available_desks = <<>>
    /\ availability_log = <<>>
    /\ recommendation = None
    /\ marketing_area_ids = <<>>
    /\ outcome = "idle"

\* what one press of the button can meet: an empty text box, a failing NLP
\* call, or an NLP call that returns a criteria record
NoCriteria == CHOOSE q \in SessionCriteria : IsEmptyDict(q)

QueryInputs ==
    {[has_text |-> FALSE, nlp |-> "ok", parsed |-> NoCriteria,
      body_is_request_error |-> FALSE]}
        \cup {[has_text |-> TRUE, nlp |-> n, parsed |-> NoCriteria,
               body_is_request_error |-> FALSE] : n \in NlpOutcomes \ {"ok"}}
        \cup {[has_text |-> TRUE, nlp |-> "body_not_json", parsed |-> NoCriteria,
               body_is_request_error |-> TRUE]}
        \cup {[has_text |-> TRUE, nlp |-> "ok", parsed |-> q,
               body_is_request_error |-> FALSE] : q \in SessionCriteria}

\* the user presses "Find Workspace"
FindWorkspace ==
    \E in \in QueryInputs :
        Handler(in.has_text, in.nlp, in.parsed, in.body_is_request_error)

\* any other interaction reruns the script with the button not pressed
ScriptRerun ==
    /\ outcome' = "idle"
    /\ nlp_outcome' = "not_called"
    /\ structured_query' = None
    /\ NoResults
    /\ UNCHANGED session

Next == FindWorkspace \/ ScriptRerun

Spec == Init /\ [][Next]_vars

----------------------------------------------------------------------------
(* check_desk_availability and the availability loop on their own: any     *)
(* candidates, time request, forecast and policy set                       *)

InitAvail ==
    /\ nlp_enabled = TRUE
    /\ spaces_data = None
    /\ desks_data = None
    /\ occupancy_data \in {Some(o) : o \in OccupancySet}
    /\ policies_data \in {Some(p) : p \in PolicySets}
    /\ candidate_desks \in DeskSeqs
    /\ req_time \in {Some(t) : t \in TimeRequests}
    /\ nlp_outcome = "not_called"
    /\ structured_query = None
    /\ req_floor = None
    /\ floor_warning = FALSE
    /\ filter_log = <<>>
    /\ available_desks = <<>>
    /\ availability_log = <<>>
    /\ recommendation = None
    /\ marketing_area_ids = <<>>
    /\ outcome = "candidates"

CheckAvailability ==
    /\ outcome = "candidates"
    /\ UNCHANGED candidate_desks
    /\ EvaluateCandidates(Val(req_time))
    /\ UNCHANGED <<session, nlp_outcome, structured_query, req_time, req_floor,
                   floor_warning, filter_log, marketing_area_ids>>

NextAvail == CheckAvailability

SpecAvail == InitAvail /\ [][NextAvail]_vars

----------------------------------------------------------------------------
(* find_marketing_zone_areas on its own: any sequence of spaces *)

InitZone ==
    /\ nlp_enabled = TRUE
    /\ spaces_data \in {Some([spaces |-> s]) : s \in SpaceSeqs}
    /\ desks_data = None
    /\ occupancy_data = None
    /\ policies_data = None
    /\ candidate_desks = <<>>
    /\ req_time = None
    /\ nlp_outcome = "not_called"
    /\ structured_query = None
    /\ req_floor = None
    /\ floor_warning = FALSE
    /\ filter_log = <<>>
    /\ available_desks = <<>>
    /\ availability_log = <<>>
    /\ recommendation = None
    /\ marketing_area_ids = <<>>
    /\ outcome = "spaces"

FindMarketingZoneAreas ==
    /\ outcome = "spaces"
    /\ marketing_area_ids' = find_marketing_zone_areas(Val(spaces_data))
    /\ outcome' = "resolved"
    /\ UNCHANGED <<session, nlp_outcome, structured_query, req_time, req_floor,
                   floor_warning, filter_log, candidate_desks, available_desks,
                   availability_log, recommendation>>

NextZone == FindMarketingZoneAreas

SpecZone == InitZone /\ [][NextZone]_vars

----------------------------------------------------------------------------
(* Criteria normalisation and the filter pipeline on their own: any desks, *)
(* any desk type, floor and proximity target                               *)

\* the spaces the filters are run against: the Marketing Zone with an area,
\* no Marketing Zone, a first Marketing Zone without areas, and two
\* Marketing Zones with an area each
FilterSpaces ==
    SessionSpaces \cup {
        [spaces |-> <<[id |-> "Z2", name |-> "Marketing Zone", type |-> "zone",
                       parent_id |-> None],
                      [id |-> "Z1", name |-> "Marketing Zone", type |-> "zone",
                       parent_id |-> None],
                      [id |-> "A1", name |-> "Area 1", type |-> "area",
                       parent_id |-> Some("Z1")]>>],
        [spaces |-> <<[id |-> "Z1", name |-> "Marketing Zone", type |-> "zone",
                       parent_id |-> None],
                      [id |-> "Z2", name |-> "Marketing Zone", type |-> "zone",
                       parent_id |-> None],
                      [id |-> "A2", name |-> "Area 2", type |-> "area",
                       parent_id |-> Some("Z2")],
                      [id |-> "A3", name |-> "Area 3", type |-> "area",
                       parent_id |-> Some("Z1")]>>] }

ProximityTargets == {"", "marketing team", "Marketing Team", "MARKETING TEAM", "window"}

\* an empty record never reaches the filters
FilterCriteria ==
    {q \in [desk_type : Optional({"", "standing"}),
            location_proximity : Optional(ProximityTargets),
            floor : Optional(FloorValues),
            time_request : {None},
            specific_features : {None}] : ~IsEmptyDict(q)}

InitFilter ==
    /\ nlp_enabled = TRUE
    /\ spaces_data \in {Some(s) : s \in FilterSpaces}
    /\ desks_data \in {Some([desks |-> s]) : s \in DeskSeqs}
    /\ occupancy_data = None
    /\ policies_data = None
    /\ structured_query \in {Some(q) : q \in FilterCriteria}
    /\ nlp_outcome = "ok"
    /\ candidate_desks = <<>>
    /\ req_time = None
    /\ req_floor = None
    /\ floor_warning = FALSE
    /\ filter_log = <<>>
    /\ available_desks = <<>>
    /\ availability_log = <<>>
    /\ recommendation = None
    /\ marketing_area_ids = <<>>
    /\ outcome = "parsed"

FilterCandidates ==
    /\ outcome = "parsed"
    /\ ExtractAndFilter(Val(structured_query))
    /\ outcome' = "filtered"
    /\ UNCHANGED <<session, nlp_outcome, structured_query, available_desks,
                   availability_log, recommendation>>

NextFilter == FilterCandidates

SpecFilter == InitFilter /\ [][NextFilter]_vars

----------------------------------------------------------------------------
(* Properties of check_desk_availability, checked under SpecAvail *)

Evaluated == outcome \in {"no_candidates", "no_available", "recommended"}

\* the forecast the occupancy data holds for a desk, read off the data itself
HasAfternoonValue(desk) ==
    /\ desk.vergesense_area_id \in DOMAIN Val(occupancy_data).forecast
    /\ "afternoon" \in DOMAIN Val(occupancy_data).forecast[desk.vergesense_area_id].next_day

AfternoonValue(desk) ==
    Val(occupancy_data).forecast[desk.vergesense_area_id].next_day["afternoon"]

\* C1: for "tomorrow afternoon" a desk that is not under maintenance is
\* unavailable when its area has no afternoon forecast, available when the
\* forecast is below 80 (0 included) and unavailable when it is 80 or more;
\* the threshold reported is 80 under every policy set.
C1_TomorrowAfternoon ==
    (Evaluated /\ req_time = Some("tomorrow afternoon")) =>
        \A i \in 1..Len(candidate_desks) :
            LET desk == candidate_desks[i]
                e == availability_log[i]
            IN  desk.status # "maintenance" =>
                    IF ~HasAfternoonValue(desk)
                    THEN ~e.is_available /\ e.reason.kind = "no_forecast"
                    ELSE /\ e.is_available <=> AfternoonValue(desk) < 80
                         /\ e.reason.threshold = 80
                         /\ e.reason.forecast = AfternoonValue(desk)

\* a desk with a forecast of exactly 80 was refused under a POL-005 policy
\* whose description does not contain "80%"
C1_Witness ==
    /\ Evaluated
    /\ req_time = Some("tomorrow afternoon")
    /\ \E p \in Range(Val(policies_data).policies) :
           p.id = "POL-005" /\ ~Contains(PolicyDescription(p), <<"8", "0", "%">>)
    /\ \E i \in 1..Len(candidate_desks) :
           /\ candidate_desks[i].status = "available"
           /\ HasAfternoonValue(candidate_desks[i])
           /\ AfternoonValue(candidate_desks[i]) = 80
           /\ ~availability_log[i].is_available

\* C2: a desk under maintenance is unavailable for every time request,
\* forecast and policy set, so it is never among the available desks and
\* never the top recommendation.
C2_MaintenanceBlocks ==
    Evaluated =>
        /\ \A i \in 1..Len(candidate_desks) :
               candidate_desks[i].status = "maintenance" =>
                   ~availability_log[i].is_available
        /\ \A j \in 1..Len(available_desks) : available_desks[j].status # "maintenance"
        /\ ~IsNone(recommendation) => Val(recommendation).desk.status # "maintenance"

\* a maintenance desk whose area forecast is 0 was evaluated for tomorrow
\* afternoon, and another candidate was recommended
C2_Witness ==
    /\ Evaluated
    /\ req_time = Some("tomorrow afternoon")
    /\ ~IsNone(recommendation)
    /\ \E i \in 1..Len(candidate_desks) :
           /\ candidate_desks[i].status = "maintenance"
           /\ HasAfternoonValue(candidate_desks[i])
           /\ AfternoonValue(candidate_desks[i]) = 0

\* C3: for "now" a desk is available exactly when its status is
\* "available", whatever the forecast and the policies.
C3_NowIffStatusAvailable ==
    (Evaluated /\ req_time = Some("now")) =>
        \A i \in 1..Len(candidate_desks) :
            availability_log[i].is_available <=> candidate_desks[i].status = "available"

\* "now" was asked with an available desk and an occupied desk whose area is
\* forecast at 100
C3_Witness ==
    /\ Evaluated
    /\ req_time = Some("now")
    /\ \E i, j \in 1..Len(candidate_desks) :
           /\ candidate_desks[i].status = "available"
           /\ availability_log[i].is_available
           /\ HasAfternoonValue(candidate_desks[i])
           /\ AfternoonValue(candidate_desks[i]) = 100
           /\ candidate_desks[j].status = "occupied"
           /\ ~availability_log[j].is_available

----------------------------------------------------------------------------
(* Properties of the normalisation and the filters, checked under SpecFilter *)

Filtered == outcome = "filtered"

LoadedDesks == Val(desks_data).desks

Criteria == Val(structured_query)

\* the candidate counts the trace states, in order
RECURSIVE CountsOf(_)
CountsOf(log) ==
    IF log = <<>> THEN <<>>
    ELSE (IF "count" \in DOMAIN Head(log) THEN <<Head(log).count>> ELSE <<>>)
             \o CountsOf(Tail(log))

NonIncreasing(counts) == \A i \in 1..(Len(counts) - 1) : counts[i + 1] <= counts[i]

\* the criteria with one constraint taken away
Without(q, field) == [q EXCEPT ![field] = None]

C4_Narrowing ==
    Filtered =>
        /\ IsSubSeq(candidate_desks, LoadedDesks)
        /\ NonIncreasing(CountsOf(filter_log) \o <<Len(candidate_desks)>>)
        /\ \A field \in {"desk_type", "floor", "location_proximity"} :
               ~IsNone(Criteria[field]) =>
                   Len(candidate_desks)
                       <= Len(FilterDesks(LoadedDesks, Without(Criteria, field),
                                          spaces_data).candidates)

\* C4: the candidates are a subsequence of the loaded desks in their
\* original order, the candidate count never grows from one filter step to
\* the next, a constraint that is present never yields more candidates than
\* the same criteria without it, and the loaded desks are never changed.
C4_FilterPipeline == [] C4_Narrowing /\ [][desks_data' = desks_data]_vars

\* type, floor and proximity were all applied to two desks and exactly the
\* second one is left
C4_Witness ==
    /\ Filtered
    /\ Len(filter_log) = 4
    /\ filter_log[4].kind = "proximity"
    /\ Len(LoadedDesks) = 2
    /\ candidate_desks = <<LoadedDesks[2]>>
    /\ LoadedDesks[1] # LoadedDesks[2]

\* C5: a floor that is present normalises to the integer spelled by the
\* digits of its string form; with no digit in it the floor is None, no
\* floor filter runs and a warning is shown.
C5_FloorNormalization ==
    (Filtered /\ ~IsNone(Criteria.floor)) =>
        LET digits == DigitsOf(Str(Val(Criteria.floor)))
        IN  IF digits # <<>>
            THEN req_floor = Some(ParseInt(digits))
            ELSE /\ req_floor = None
                 /\ floor_warning
                 /\ \A i \in 1..Len(filter_log) : filter_log[i].kind # "floor"

\* the kind of step a trace entry belongs to
StepOf(entry) ==
    IF entry.kind \in {"proximity", "proximity_warning", "spaces_not_loaded",
                       "not_implemented"}
    THEN "proximity"
    ELSE entry.kind

StepsOf(log) == [i \in 1..Len(log) |-> StepOf(log[i])]

\* C6 as stated: the trace always holds the start entry and one entry for
\* each of the three steps, in the order start, type, floor, proximity.
C6_EveryStepLogged ==
    Filtered =>
        /\ filter_log[1] = [kind |-> "start", count |-> Len(LoadedDesks)]
        /\ StepsOf(filter_log) = <<"start", "type", "floor", "proximity">>

\* C6 amended: the trace begins with the start entry and its count; a step
\* appends exactly one entry when its criterion is given (a non-empty desk
\* type, a floor that normalised to a number, a non-empty proximity target),
\* whether or not it removed a desk, and none otherwise; the entries keep the
\* order start, type, floor, proximity, and the last count stated is the
\* number of candidates.
C6_GivenStepsLogged ==
    Filtered =>
        /\ filter_log[1] = [kind |-> "start", count |-> Len(LoadedDesks)]
        /\ StepsOf(filter_log) =
               <<"start">>
                   \o (IF TruthyText(Criteria.desk_type) THEN <<"type">> ELSE <<>>)
                   \o (IF ~IsNone(req_floor) THEN <<"floor">> ELSE <<>>)
                   \o (IF TruthyText(Criteria.location_proximity)
                       THEN <<"proximity">> ELSE <<>>)
        /\ \A i \in 1..Len(filter_log) :
               filter_log[i].kind \in {"type", "floor", "proximity"} =>
                   "count" \in DOMAIN filter_log[i]
        /\ LET counts == CountsOf(filter_log)
           IN  counts[Len(counts)] = Len(candidate_desks)

\* all three steps ran, the type step removed nothing and still logged its
\* count
C6_Witness ==
    /\ Filtered
    /\ Len(filter_log) = 4
    /\ Len(LoadedDesks) > 0
    /\ filter_log[2].kind = "type"
    /\ filter_log[2].count = filter_log[1].count

----------------------------------------------------------------------------
(* Properties of the session, checked under Spec *)

NlpFailures == NlpOutcomes \ {"ok"}

NothingShown ==
    /\ filter_log = <<>>
    /\ candidate_desks = <<>>
    /\ available_desks = <<>>
    /\ recommendation = None

\* the next press of the button can reach the filters
CanStillFilter == ENABLED (FindWorkspace /\ filter_log' # <<>>)

\* C7 as stated: after an NLP failure of any kind the query shows no
\* candidates and no recommendation, the NLP flag is still on and a later
\* query can be parsed and filtered.
C7_FailureLeavesNlpOn ==
    nlp_outcome \in NlpFailures => (NothingShown /\ nlp_enabled /\ CanStillFilter)

\* what each kind of NLP failure leaves behind
C7_State ==
    /\ nlp_outcome \in NlpFailures => NothingShown
    /\ nlp_outcome \in {"timeout", "missing_response", "invalid_json",
                        "unexpected_error"} => (nlp_enabled /\ CanStillFilter)
    /\ nlp_outcome \in {"connection_error", "request_error"} => ~nlp_enabled
    /\ ~nlp_enabled => ~CanStillFilter

\* C7 amended: after an NLP failure of any kind the query shows no
\* candidates and no recommendation.  After a timeout, a missing 'response'
\* field, a 'response' text that is not JSON or an unexpected error the NLP
\* flag is still on and a later query can be parsed and filtered; after a
\* connection error or another request error the flag is off, and once off
\* it stays off and no later query reaches the filters.
C7_FailureByKind == [] C7_State /\ [][~nlp_enabled => ~nlp_enabled']_vars

\* a query timed out and the flag is still on
C7_Witness ==
    /\ nlp_outcome = "timeout"
    /\ outcome = "parse_failed"
    /\ nlp_enabled
    /\ Len(Val(desks_data).desks) > 0

\* C8: with the occupancy data missing and the desks and spaces loaded, a
\* query is not turned away for missing data: its filters run, and it ends
\* without a recommendation.
C8_FilterWithoutOccupancy ==
    (IsNone(occupancy_data) /\ ~IsNone(desks_data) /\ ~IsNone(spaces_data)) =>
        /\ outcome # "data_missing"
        /\ recommendation = None

\* C9: a parsed criteria record with no field at all applies no filter: the
\* candidates are all the loaded desks, the time request is "now" and the
\* available desks are exactly the desks whose status is "available".
C9_EmptyCriteria ==
    (nlp_outcome = "ok" /\ ~IsNone(structured_query)
        /\ IsEmptyDict(Val(structured_query))) =>
        /\ filter_log = <<[kind |-> "start", count |-> Len(Val(desks_data).desks)]>>
        /\ candidate_desks = Val(desks_data).desks
        /\ req_time = Some("now")
        /\ available_desks = SelectSeq(candidate_desks, LAMBDA d : d.status = "available")

----------------------------------------------------------------------------
(* Property of find_marketing_zone_areas, checked under SpecZone *)

Spaces == Val(spaces_data).spaces

MarketingZoneIndexes ==
    {i \in 1..Len(Spaces) : Spaces[i].type = "zone" /\ Spaces[i].name = "Marketing Zone"}

FirstMarketingZone ==
    Spaces[CHOOSE i \in MarketingZoneIndexes : \A j \in MarketingZoneIndexes : i <= j]

IdsOf(spaces) == [i \in 1..Len(spaces) |-> spaces[i].id]

\* C10: with no zone named "Marketing Zone" the result is empty; otherwise
\* it is the ids, in input order, of the areas whose parent is the first such
\* zone, so the areas of a later zone of the same name are left out.
C10_MarketingZoneAreas ==
    outcome = "resolved" =>
        IF MarketingZoneIndexes = {} THEN marketing_area_ids = <<>>
        ELSE marketing_area_ids =
                 IdsOf(SelectSeq(Spaces,
                     LAMBDA x : x.type = "area"
                                    /\ x.parent_id = Some(FirstMarketingZone.id)))

\* two zones are named "Marketing Zone" and an area of the first one is
\* returned
C10_Witness ==
    /\ outcome = "resolved"
    /\ Cardinality(MarketingZoneIndexes) = 2
    /\ marketing_area_ids # <<>>

----------------------------------------------------------------------------
(* Property of the proximity step, checked under SpecFilter *)

\* the candidates the type and floor steps hand to the proximity step
PriorCandidates ==
    SelectSeq(LoadedDesks,
        LAMBDA d : /\ TruthyText(Criteria.desk_type) => d.type = Val(Criteria.desk_type)
                   /\ ~IsNone(req_floor) => d.floor = Val(req_floor))

\* the length of the trace when the proximity step starts
PriorTraceLen ==
    1 + (IF TruthyText(Criteria.desk_type) THEN 1 ELSE 0)
      + (IF ~IsNone(req_floor) THEN 1 ELSE 0)

\* the ids of the areas of the first Marketing Zone, read off the spaces
MarketingAreaSet ==
    IF MarketingZoneIndexes = {} THEN {}
    ELSE {Spaces[i].id : i \in {k \in 1..Len(Spaces) :
              Spaces[k].type = "area"
                  /\ Spaces[k].parent_id = Some(FirstMarketingZone.id)}}

IsMarketingTeam(target) ==
    target \in {"marketing team", "Marketing Team", "MARKETING TEAM"}

ProximityKinds == {"proximity", "proximity_warning", "spaces_not_loaded", "not_implemented"}

\* the trace is the one the type and floor steps left, plus the given entries
TraceGrewBy(n) ==
    /\ Len(filter_log) = PriorTraceLen + n
    /\ \A i \in 1..PriorTraceLen : filter_log[i].kind \notin ProximityKinds

\* C11: a target equal to "marketing team" ignoring case keeps exactly the
\* prior candidates whose area_id is an area of the Marketing Zone when there
\* is such an area, and otherwise keeps the candidates and appends a warning
\* entry; any other non-empty target keeps the candidates and appends a
\* "not implemented" entry; an absent target keeps candidates and trace.
C11_ProximityStep ==
    Filtered =>
        LET target == Criteria.location_proximity
        IN  IF IsNone(target)
            THEN candidate_desks = PriorCandidates /\ TraceGrewBy(0)
            ELSE IF IsMarketingTeam(Val(target))
            THEN IF MarketingAreaSet # {}
                 THEN candidate_desks =
                          SelectSeq(PriorCandidates,
                                    LAMBDA d : d.area_id \in MarketingAreaSet)
                 ELSE /\ candidate_desks = PriorCandidates
                      /\ TraceGrewBy(1)
                      /\ filter_log[Len(filter_log)].kind = "proximity_warning"
            ELSE IF Val(target) # ""
            THEN /\ candidate_desks = PriorCandidates
                 /\ TraceGrewBy(1)
                 /\ filter_log[Len(filter_log)] =
                        [kind |-> "not_implemented", target |-> Val(target)]
            ELSE TRUE

\* "Marketing Team" was asked with two Marketing Zones loaded, and of two
\* prior candidates only the desk in an area of the first zone is left
C11_Witness ==
    /\ Filtered
    /\ Criteria.location_proximity = Some("Marketing Team")
    /\ Cardinality(MarketingZoneIndexes) = 2
    /\ Len(PriorCandidates) = 2
    /\ Len(candidate_desks) = 1
    /\ candidate_desks[1].area_id \in MarketingAreaSet

====
